---- MODULE Spec2Model ----
(***************************************************************************)
(* Model of the deep-research backend: the two SSE streamers of            *)
(* src/main.py (stream_response, stream_research_response) with the        *)
(* markdown renderer stream_to_markdown, the subagent dispatch of          *)
(* src/agent.py (run_subagent over asyncio.gather, driven by the lead      *)
(* agent's tool loop) and the tool layer of src/tools.py (search, fetch).  *)
(*                                                                         *)
(* Python strings are sequences of one-character strings, so that          *)
(* len(), slicing, startswith() and str.replace() are computed as Python   *)
(* computes them.                                                          *)
(***************************************************************************)
EXTENDS Integers, Sequences, FiniteSets, TLC

VARIABLES
    \* ---- streamers (src/main.py) ----
    streamer,           \* which generator chat() created: "chat" | "research"
    message_id,         \* the id of the message being streamed
    pc,                 \* the yield at which the generator is suspended
    events,             \* the frames yielded so far, in order
    previous_text,      \* stream_response's local previous_text
    previous_markdown,  \* stream_research_response's local previous_markdown
    rendered,           \* history: the full rendering of every snapshot delivered
    exception,          \* history: the exception the snapshot source raised, if any
    closed_at,          \* history: the number of frames sent when the consumer closed the generator
    \* ---- lead agent and run_subagent (src/agent.py) ----
    lead_pc,            \* "deciding" | "in_round" | "final" | "failed"
    rounds,             \* number of run_subagent invocations of this request
    tasks,              \* the batch of the current round (tasks.tasks)
    sub_state,          \* per task of the batch: "running" | "done" | "failed"
    sub_output,         \* per task of the batch: result.output of its sub_agent.run
    completion,         \* history: indices of the batch in order of resolution
    gather,             \* the future asyncio.gather hands to run_subagent
    round_outcome,      \* what run_subagent did: nothing yet, returned a list, raised
    \* ---- tool layer (src/tools.py) ----
    tool_call,          \* the call in progress or last made, with what the network did
    tool_result,        \* what the call gave its caller: a returned payload or a raise
    slept,              \* the asyncio.sleep durations the call performed, in order
    calls,              \* number of tool calls made
    \* ---- stream_to_markdown applied to a pair of partial reports ----
    report_a,           \* a partial report
    report_b,           \* a second partial report
    markdown_a,         \* stream_to_markdown(report_a), once rendered
    markdown_b,         \* stream_to_markdown(report_b), once rendered
    render_pc,          \* "input" | "rendered"
    \* ---- the /api/chat endpoint (src/main.py) ----
    request,            \* the request received
    response,           \* what chat() did with it: HTTP 400 or a streaming response
    \* ---- convert_messages_to_pydantic (src/main.py) ----
    messages,           \* the list of messages passed in
    converted,          \* what the call gave: the converted list, or a raise
    \* ---- ResearchReport.to_markdown beside stream_to_markdown ----
    research_report,    \* a ResearchReport object
    renderings          \* its two renderings, once computed

stream_vars == <<streamer, message_id, pc, events, previous_text,
                 previous_markdown, rendered, exception, closed_at>>
agent_vars  == <<lead_pc, rounds, tasks, sub_state, sub_output, completion,
                 gather, round_outcome>>
tool_vars   == <<tool_call, tool_result, slept, calls>>
render_vars == <<report_a, report_b, markdown_a, markdown_b, render_pc>>
chat_vars   == <<request, response>>
convert_vars == <<messages, converted>>
report_vars == <<research_report, renderings>>
pure_vars   == <<render_vars, chat_vars, convert_vars, report_vars>>
vars == <<stream_vars, agent_vars, tool_vars, pure_vars>>

----------------------------------------------------------------------------
(* Bounds of the model *)

\* number of snapshots the snapshot source delivers at most
MaxSnapshots == 3
\* run_subagent invocations after which the model stops counting
MaxRounds == 4
\* largest batch of tasks of one round
MaxTasks == 3
\* number of tool calls explored
MaxCalls == 2

----------------------------------------------------------------------------
(* Python string helpers *)

\* s.startswith(p)
StartsWith(s, p) == Len(p) <= Len(s) /\ SubSeq(s, 1, Len(p)) = p

\* s[n:]
SliceFrom(s, n) == IF n >= Len(s) THEN <<>> ELSE SubSeq(s, n + 1, Len(s))

\* str(i) for a natural number i
Digit(d) == CASE d = 0 -> "0" [] d = 1 -> "1" [] d = 2 -> "2" [] d = 3 -> "3"
              [] d = 4 -> "4" [] d = 5 -> "5" [] d = 6 -> "6" [] d = 7 -> "7"
              [] d = 8 -> "8" [] d = 9 -> "9"

RECURSIVE IntToStr(_)
IntToStr(i) == IF i < 10 THEN <<Digit(i)>>
               ELSE IntToStr(i \div 10) \o <<Digit(i % 10)>>

\* s.replace('"', '\\"')
RECURSIVE EscapeQuotes(_)
EscapeQuotes(s) ==
    IF s = <<>> THEN <<>>
    ELSE (IF Head(s) = "\"" THEN <<"\\", "\"">> ELSE <<Head(s)>>)
         \o EscapeQuotes(Tail(s))

----------------------------------------------------------------------------
(* Partial reports: a dict is a record whose DOMAIN is the set of keys     *)
(* present.  Text fields are strings; list fields are tagged values so     *)
(* that a truthy value that cannot be iterated is representable.           *)

JList(items) == [type |-> "list", items |-> items]
JInt == [type |-> "int", items |-> <<>>]

\* bool(v) for a list-typed field
Truthy(v) == v.type = "int" \/ v.items /= <<>>
\* iter(v) succeeds
Iterable(v) == v.type = "list"

\* an element of a list that is not a dict
NotADict == [nondict |-> TRUE]
\* isinstance(x, dict)
IsDict(x) == "nondict" \notin DOMAIN x

\* d.get(k, "")
Get(d, k) == IF k \in DOMAIN d THEN d[k] ELSE <<>>

----------------------------------------------------------------------------
(* stream_to_markdown (src/main.py) *)

H1 == <<"#"," ">>
H2 == <<"#","#"," ">>
H3 == <<"#","#","#"," ">>
NL == <<"\n">>
NLNL == <<"\n","\n">>
ExecHdr == <<"#","#"," ","E","x","e","c","u","t","i","v","e"," ","S","u","m","m","a","r","y","\n","\n">>
KeyHdr == <<"#","#"," ","K","e","y"," ","T","a","k","e","a","w","a","y","s","\n","\n">>
DotSp == <<"."," ">>

\* the title block
TitleMd(partial_report) ==
    IF "title" \in DOMAIN partial_report /\ partial_report.title /= <<>>
    THEN H1 \o partial_report.title \o NLNL
    ELSE <<>>

\* the executive summary block
SummaryMd(partial_report) ==
    IF "executive_summary" \in DOMAIN partial_report
       /\ partial_report.executive_summary /= <<>>
    THEN ExecHdr \o partial_report.executive_summary \o NLNL
    ELSE <<>>

\* one subsection of a section
SubsectionMd(subsection) ==
    IF ~IsDict(subsection) THEN <<>>
    ELSE (IF Get(subsection, "title") /= <<>>
          THEN H3 \o Get(subsection, "title") \o NLNL ELSE <<>>)
         \o (IF Get(subsection, "content") /= <<>>
             THEN Get(subsection, "content") \o NLNL ELSE <<>>)

RECURSIVE SubsectionsMd(_)
SubsectionsMd(subs) ==
    IF subs = <<>> THEN <<>>
    ELSE SubsectionMd(Head(subs)) \o SubsectionsMd(Tail(subs))

\* one section with its subsections
SectionMd(section) ==
    IF ~IsDict(section) THEN <<>>
    ELSE (IF Get(section, "title") /= <<>>
          THEN H2 \o Get(section, "title") \o NLNL ELSE <<>>)
         \o (IF Get(section, "content") /= <<>>
             THEN Get(section, "content") \o NLNL ELSE <<>>)
         \o (IF "subsections" \in DOMAIN section /\ Truthy(section.subsections)
             THEN SubsectionsMd(section.subsections.items) ELSE <<>>)

RECURSIVE SectionsLoopMd(_)
SectionsLoopMd(secs) ==
    IF secs = <<>> THEN <<>>
    ELSE SectionMd(Head(secs)) \o SectionsLoopMd(Tail(secs))

\* the sections block
SectionsMd(partial_report) ==
    IF "sections" \in DOMAIN partial_report /\ Truthy(partial_report.sections)
    THEN SectionsLoopMd(partial_report.sections.items)
    ELSE <<>>

\* the numbered list, enumerate(key_takeaways, 1) from position i on
RECURSIVE TakeawaysLoopMd(_, _)
TakeawaysLoopMd(takeaways, i) ==
    IF takeaways = <<>> THEN <<>>
    ELSE IntToStr(i) \o DotSp \o Head(takeaways) \o NL
         \o TakeawaysLoopMd(Tail(takeaways), i + 1)

\* the key takeaways block with its heading repeated for every takeaway
TakeawaysMd_HeadingPerItem(partial_report) ==
    IF "key_takeaways" \in DOMAIN partial_report
       /\ Truthy(partial_report.key_takeaways)
    THEN LET items == partial_report.key_takeaways.items IN
         IF Len(items) = 1 THEN KeyHdr \o TakeawaysLoopMd(items, 1)
         ELSE KeyHdr \o TakeawaysLoopMd(<<Head(items)>>, 1)
              \o KeyHdr \o TakeawaysLoopMd(Tail(items), 2)
    ELSE <<>>

\* the key takeaways block
TakeawaysMd(partial_report) ==
    IF "key_takeaways" \in DOMAIN partial_report
       /\ Truthy(partial_report.key_takeaways)
    THEN KeyHdr \o TakeawaysLoopMd(partial_report.key_takeaways.items, 1)
    ELSE <<>>

\* a for loop over a truthy value that is not iterable raises TypeError
RenderRaises(partial_report) ==
    \/ /\ "sections" \in DOMAIN partial_report
       /\ Truthy(partial_report.sections)
       /\ \/ ~Iterable(partial_report.sections)
          \/ \E k \in 1..Len(partial_report.sections.items) :
                LET section == partial_report.sections.items[k] IN
                /\ IsDict(section)
                /\ "subsections" \in DOMAIN section
                /\ Truthy(section.subsections)
                /\ ~Iterable(section.subsections)
    \/ /\ "key_takeaways" \in DOMAIN partial_report
       /\ Truthy(partial_report.key_takeaways)
       /\ ~Iterable(partial_report.key_takeaways)

\* the renderer with the key takeaways block ahead of the sections block
stream_to_markdown_TakeawaysFirst(partial_report) ==
    IF RenderRaises(partial_report) THEN <<>>
    ELSE TitleMd(partial_report) \o SummaryMd(partial_report)
         \o TakeawaysMd(partial_report) \o SectionsMd(partial_report)

\* def stream_to_markdown(partial_report): the except branch returns ""
stream_to_markdown(partial_report) ==
    IF RenderRaises(partial_report) THEN <<>>
    ELSE TitleMd(partial_report) \o SummaryMd(partial_report)
         \o SectionsMd(partial_report) \o TakeawaysMd(partial_report)

----------------------------------------------------------------------------
(* The snapshot sources.  In chat mode result.stream() yields the full     *)
(* text so far; in research mode it yields partial outputs: objects with   *)
(* model_dump, raw dicts, strings, or falsy values.                        *)

ChatMessages ==
    {<<>>, <<"a">>, <<"b">>, <<"a","a">>, <<"a","b">>, <<"b","a">>, <<"b","b">>}

EmptyDict == [k \in {} |-> <<>>]

SubB == [title |-> <<"B">>, content |-> <<"d">>]
SecA == [title |-> <<"A">>, content |-> <<"c">>]
SecASub == [title |-> <<"A">>, content |-> <<"c">>, subsections |-> JList(<<SubB>>)]
SecModel == [title |-> <<"A">>, content |-> <<"c">>, subsections |-> JList(<<>>)]

DictTitle == [title |-> <<"T">>]
DictTitleGrown == [title |-> <<"T","u">>]
DictSummary == [title |-> <<"T">>, executive_summary |-> <<"S">>]
DictSection == [title |-> <<"T">>, executive_summary |-> <<"S">>,
                sections |-> JList(<<SecA>>)]
DictSubsection == [title |-> <<"T">>, executive_summary |-> <<"S">>,
                   sections |-> JList(<<SecASub>>)]
DictTakeaway == [title |-> <<"T">>, executive_summary |-> <<"S">>,
                 sections |-> JList(<<SecASub>>),
                 key_takeaways |-> JList(<< <<"k">> >>)]
DictNotIterable == [title |-> <<"T">>, sections |-> JInt]
DictNonDictSection == [title |-> <<"T">>, sections |-> JList(<<NotADict, SecA>>)]
ModelReport == [title |-> <<"T">>, executive_summary |-> <<"S">>,
                sections |-> JList(<<SecModel>>),
                key_takeaways |-> JList(<< <<"k">>, <<"m">> >>)]

Snapshot(kind, dict, text) == [kind |-> kind, dict |-> dict, text |-> text]

ResearchSnapshots ==
    { Snapshot("dict", d, <<>>) :
        d \in {DictTitle, DictTitleGrown, DictSummary, DictSection,
               DictSubsection, DictTakeaway, DictNotIterable,
               DictNonDictSection, EmptyDict} }
    \cup { Snapshot("model", ModelReport, <<>>) }
    \cup { Snapshot("str", DictTitle, t) : t \in {<<>>, <<"x">>, <<"x","y">>} }
    \cup { Snapshot("none", DictTitle, <<>>) }

\* bool(partial_output)
SnapshotTruthy(partial_output) ==
    CASE partial_output.kind = "model" -> TRUE
      [] partial_output.kind = "dict" -> DOMAIN partial_output.dict /= {}
      [] partial_output.kind = "str" -> partial_output.text /= <<>>
      [] partial_output.kind = "none" -> FALSE

\* the full rendering of a research snapshot
Rendering(partial_output) ==
    CASE partial_output.kind \in {"model", "dict"} ->
             stream_to_markdown(partial_output.dict)
      [] partial_output.kind = "str" -> partial_output.text
      [] partial_output.kind = "none" -> <<>>

\* str(e) of the exceptions the snapshot source raises
ExceptionMessages == {<<>>, <<"b","o","o","m">>}

MessageIds == {"m1", "m2"}

\* closed_at of a generator its consumer has not closed
NotClosed == 0 - 1

----------------------------------------------------------------------------
(* Stream frames *)

ErrorPrefix == <<"E","r","r","o","r",":"," ">>

TextStart(id) == [type |-> "text-start", id |-> id, delta |-> <<>>]
TextDelta(id, delta) == [type |-> "text-delta", id |-> id, delta |-> delta]
TextEnd(id) == [type |-> "text-end", id |-> id, delta |-> <<>>]
DoneSentinel == [type |-> "[DONE]", id |-> "", delta |-> <<>>]

\* the exception raised under the try block, and how many frames preceded it
NoException == [raised |-> FALSE, msg |-> <<>>, at |-> 0]
Raised(msg, at) == [raised |-> TRUE, msg |-> msg, at |-> at]

----------------------------------------------------------------------------
(* stream_response (src/main.py): one action per resumption of the         *)
(* generator, up to its next yield.                                        *)

\* yield text-start; previous_text = ""
stream_response_start ==
    /\ streamer = "chat" /\ pc = "created"
    /\ events' = Append(events, TextStart(message_id))
    /\ previous_text' = <<>>
    /\ pc' = "streaming"
    /\ UNCHANGED <<streamer, message_id, previous_markdown, rendered, exception>>
    /\ UNCHANGED <<closed_at, agent_vars, tool_vars, pure_vars>>

\* the delta as the slice at len(previous_text), prefix or not
ChatDelta_AlwaysSlice(message, previous) == SliceFrom(message, Len(previous))

\* the delta of one message of result.stream()
ChatDelta(message, previous) ==
    IF StartsWith(message, previous)
    THEN SliceFrom(message, Len(previous))
    ELSE message

\* one iteration that emits the delta and leaves previous_text as it was
stream_response_message_StalePrevious(message) ==
    /\ streamer = "chat" /\ pc = "streaming"
    /\ Len(rendered) < MaxSnapshots
    /\ LET delta == ChatDelta(message, previous_text) IN
       IF delta /= <<>>
       THEN /\ events' = Append(events, TextDelta(message_id, delta))
            /\ UNCHANGED previous_text
       ELSE UNCHANGED <<events, previous_text>>
    /\ rendered' = Append(rendered, message)
    /\ UNCHANGED <<streamer, message_id, pc, previous_markdown, exception>>
    /\ UNCHANGED <<closed_at, agent_vars, tool_vars, pure_vars>>

\* one iteration of: async for message in result.stream()
stream_response_message(message) ==
    /\ streamer = "chat" /\ pc = "streaming"
    /\ Len(rendered) < MaxSnapshots
    /\ LET delta == ChatDelta(message, previous_text) IN
       IF delta /= <<>>
       THEN /\ events' = Append(events, TextDelta(message_id, delta))
            /\ previous_text' = message
       ELSE UNCHANGED <<events, previous_text>>
    /\ rendered' = Append(rendered, message)
    /\ UNCHANGED <<streamer, message_id, pc, previous_markdown, exception>>
    /\ UNCHANGED <<closed_at, agent_vars, tool_vars, pure_vars>>

\* the stream is exhausted: yield text-end
stream_response_end ==
    /\ streamer = "chat" /\ pc = "streaming"
    /\ events' = Append(events, TextEnd(message_id))
    /\ pc' = "text_end"
    /\ UNCHANGED <<streamer, message_id, previous_text, previous_markdown,
                   rendered, exception>>
    /\ UNCHANGED <<closed_at, agent_vars, tool_vars, pure_vars>>

\* yield [DONE]
stream_response_done ==
    /\ streamer = "chat" /\ pc = "text_end"
    /\ events' = Append(events, DoneSentinel)
    /\ pc' = "done"
    /\ UNCHANGED <<streamer, message_id, previous_text, previous_markdown,
                   rendered, exception>>
    /\ UNCHANGED <<closed_at, agent_vars, tool_vars, pure_vars>>

\* the handler sending str(e) without the "Error: " prefix
stream_response_except_NoPrefix(e) ==
    /\ streamer = "chat" /\ pc = "streaming"
    /\ events' = Append(events, TextDelta(message_id, e))
    /\ exception' = Raised(e, Len(events))
    /\ pc' = "error_delta"
    /\ UNCHANGED <<streamer, message_id, previous_text, previous_markdown, rendered>>
    /\ UNCHANGED <<closed_at, agent_vars, tool_vars, pure_vars>>

\* except Exception as e: yield the error delta
stream_response_except(e) ==
    /\ streamer = "chat" /\ pc = "streaming"
    /\ events' = Append(events, TextDelta(message_id, ErrorPrefix \o e))
    /\ exception' = Raised(e, Len(events))
    /\ pc' = "error_delta"
    /\ UNCHANGED <<streamer, message_id, previous_text, previous_markdown, rendered>>
    /\ UNCHANGED <<closed_at, agent_vars, tool_vars, pure_vars>>

\* the handler's yield text-end
stream_response_except_end ==
    /\ streamer = "chat" /\ pc = "error_delta"
    /\ events' = Append(events, TextEnd(message_id))
    /\ pc' = "error_text_end"
    /\ UNCHANGED <<streamer, message_id, previous_text, previous_markdown,
                   rendered, exception>>
    /\ UNCHANGED <<closed_at, agent_vars, tool_vars, pure_vars>>

\* the handler's yield [DONE]
stream_response_except_done ==
    /\ streamer = "chat" /\ pc = "error_text_end"
    /\ events' = Append(events, DoneSentinel)
    /\ pc' = "done"
    /\ UNCHANGED <<streamer, message_id, previous_text, previous_markdown,
                   rendered, exception>>
    /\ UNCHANGED <<closed_at, agent_vars, tool_vars, pure_vars>>

----------------------------------------------------------------------------
(* stream_research_response (src/main.py) *)

\* yield text-start; previous_markdown = ""
stream_research_response_start ==
    /\ streamer = "research" /\ pc = "created"
    /\ events' = Append(events, TextStart(message_id))
    /\ previous_markdown' = <<>>
    /\ pc' = "streaming"
    /\ UNCHANGED <<streamer, message_id, previous_text, rendered, exception>>
    /\ UNCHANGED <<closed_at, agent_vars, tool_vars, pure_vars>>

\* the delta without the slice
ResearchDelta_Whole(current_markdown, previous) == current_markdown

\* delta = current_markdown[len(previous_markdown):]
ResearchDelta(current_markdown, previous) ==
    SliceFrom(current_markdown, Len(previous))

\* one iteration of: async for partial_output in result.stream()
stream_research_response_partial(partial_output) ==
    /\ streamer = "research" /\ pc = "streaming"
    /\ Len(rendered) < MaxSnapshots
    /\ rendered' = Append(rendered, Rendering(partial_output))
    /\ IF ~SnapshotTruthy(partial_output)
       THEN UNCHANGED <<events, previous_markdown>>
       ELSE IF partial_output.kind = "str"
       THEN \* fallback for string or other types
            LET current_markdown == partial_output.text
                delta == ResearchDelta(current_markdown, previous_markdown) IN
            IF current_markdown /= previous_markdown /\ delta /= <<>>
            THEN /\ events' = Append(events, TextDelta(message_id, delta))
                 /\ previous_markdown' = current_markdown
            ELSE UNCHANGED <<events, previous_markdown>>
       ELSE \* model_dump() or the dict itself
            LET current_markdown == stream_to_markdown(partial_output.dict)
                delta == ResearchDelta(current_markdown, previous_markdown) IN
            IF current_markdown /= previous_markdown
            THEN /\ events' = IF delta /= <<>>
                              THEN Append(events, TextDelta(message_id, delta))
                              ELSE events
                 /\ previous_markdown' = current_markdown
            ELSE UNCHANGED <<events, previous_markdown>>
    /\ UNCHANGED <<streamer, message_id, pc, previous_text, exception>>
    /\ UNCHANGED <<closed_at, agent_vars, tool_vars, pure_vars>>

\* the stream is exhausted: yield text-end
stream_research_response_end ==
    /\ streamer = "research" /\ pc = "streaming"
    /\ events' = Append(events, TextEnd(message_id))
    /\ pc' = "text_end"
    /\ UNCHANGED <<streamer, message_id, previous_text, previous_markdown,
                   rendered, exception>>
    /\ UNCHANGED <<closed_at, agent_vars, tool_vars, pure_vars>>

\* the generator finishing after text-end without the sentinel
stream_research_response_done_NoSentinel ==
    /\ streamer = "research" /\ pc = "text_end"
    /\ pc' = "done"
    /\ UNCHANGED <<streamer, message_id, events, previous_text, previous_markdown,
                   rendered, exception>>
    /\ UNCHANGED <<closed_at, agent_vars, tool_vars, pure_vars>>

\* yield [DONE]
stream_research_response_done ==
    /\ streamer = "research" /\ pc = "text_end"
    /\ events' = Append(events, DoneSentinel)
    /\ pc' = "done"
    /\ UNCHANGED <<streamer, message_id, previous_text, previous_markdown,
                   rendered, exception>>
    /\ UNCHANGED <<closed_at, agent_vars, tool_vars, pure_vars>>

\* except Exception as e: yield the error delta
stream_research_response_except(e) ==
    /\ streamer = "research" /\ pc = "streaming"
    /\ events' = Append(events, TextDelta(message_id, ErrorPrefix \o e))
    /\ exception' = Raised(e, Len(events))
    /\ pc' = "error_delta"
    /\ UNCHANGED <<streamer, message_id, previous_text, previous_markdown, rendered>>
    /\ UNCHANGED <<closed_at, agent_vars, tool_vars, pure_vars>>

\* the handler without its text-end frame
stream_research_response_except_end_NoTextEnd ==
    /\ streamer = "research" /\ pc = "error_delta"
    /\ events' = Append(events, DoneSentinel)
    /\ pc' = "done"
    /\ UNCHANGED <<streamer, message_id, previous_text, previous_markdown,
                   rendered, exception>>
    /\ UNCHANGED <<closed_at, agent_vars, tool_vars, pure_vars>>

\* the handler's yield text-end
stream_research_response_except_end ==
    /\ streamer = "research" /\ pc = "error_delta"
    /\ events' = Append(events, TextEnd(message_id))
    /\ pc' = "error_text_end"
    /\ UNCHANGED <<streamer, message_id, previous_text, previous_markdown,
                   rendered, exception>>
    /\ UNCHANGED <<closed_at, agent_vars, tool_vars, pure_vars>>

\* the handler's yield [DONE]
stream_research_response_except_done ==
    /\ streamer = "research" /\ pc = "error_text_end"
    /\ events' = Append(events, DoneSentinel)
    /\ pc' = "done"
    /\ UNCHANGED <<streamer, message_id, previous_text, previous_markdown,
                   rendered, exception>>
    /\ UNCHANGED <<closed_at, agent_vars, tool_vars, pure_vars>>

----------------------------------------------------------------------------
(* The consumer closes the generator (client disconnect): GeneratorExit,   *)
(* or CancelledError for a cancelled task, is thrown at the point where    *)
(* the generator is suspended.  Both are BaseException and not Exception,  *)
(* so "except Exception" does not handle them and the generator finishes.  *)

\* the points at which a generator can still be closed
Closable == {"created", "streaming", "text_end", "error_delta", "error_text_end"}

\* a handler that catches the close like any exception and yields its delta
stream_response_close_Caught ==
    /\ streamer = "chat" /\ pc \in Closable
    /\ closed_at' = Len(events)
    /\ events' = Append(events, TextDelta(message_id, ErrorPrefix))
    /\ pc' = "error_delta"
    /\ UNCHANGED <<streamer, message_id, previous_text, previous_markdown,
                   rendered, exception>>
    /\ UNCHANGED <<agent_vars, tool_vars, pure_vars>>

\* stream_response is closed by its consumer
stream_response_close ==
    /\ streamer = "chat" /\ pc \in Closable
    /\ closed_at' = Len(events)
    /\ pc' = "closed"
    /\ UNCHANGED <<streamer, message_id, events, previous_text, previous_markdown,
                   rendered, exception>>
    /\ UNCHANGED <<agent_vars, tool_vars, pure_vars>>

\* stream_research_response is closed by its consumer
stream_research_response_close ==
    /\ streamer = "research" /\ pc \in Closable
    /\ closed_at' = Len(events)
    /\ pc' = "closed"
    /\ UNCHANGED <<streamer, message_id, events, previous_text, previous_markdown,
                   rendered, exception>>
    /\ UNCHANGED <<agent_vars, tool_vars, pure_vars>>

----------------------------------------------------------------------------
(* The lead agent's tool loop and run_subagent (src/agent.py).  The model  *)
(* behind lead_agent is opaque: at each turn it either calls the           *)
(* run_subagent tool with a batch of tasks or produces the final report.   *)

Task(d, f) == [description |-> d, focus_area |-> f]
Tasks == {Task("d1", "f1"), Task("d2", "f2")}

\* every batch of at most n tasks
RECURSIVE BatchesUpTo(_)
BatchesUpTo(n) ==
    IF n = 0 THEN {<<>>}
    ELSE BatchesUpTo(n - 1)
         \cup {Append(b, t) : b \in {c \in BatchesUpTo(n - 1) : Len(c) = n - 1},
                              t \in Tasks}

Batches == BatchesUpTo(MaxTasks)

\* the prompt sub_agent.run is given for a task
SubagentPrompt(task) == <<"Research Task: ", task.description,
                          "\nFocus Area: ", task.focus_area>>

Summaries == {"s1", "s2"}
SubagentErrors == {"err1", "err2"}

\* result.output of the run started with this prompt
Findings(prompt, summary) == [prompt |-> prompt, summary |-> summary]
NoFindings == Findings(<<>>, "")

GatherPending == [state |-> "pending", error |-> ""]
GatherResult == [state |-> "result", error |-> ""]
GatherException(e) == [state |-> "exception", error |-> e]

NoOutcome == [kind |-> "none", list |-> <<>>, error |-> ""]
Returned(list) == [kind |-> "returned", list |-> list, error |-> ""]
RaisedOut(e) == [kind |-> "raised", list |-> <<>>, error |-> e]

\* the lead agent's model calls the run_subagent tool: the coroutines of the
\* batch are handed to asyncio.gather and run_subagent awaits it
run_subagent_call(batch) ==
    /\ lead_pc = "deciding"
    /\ rounds < MaxRounds
    /\ rounds' = rounds + 1
    /\ tasks' = batch
    /\ sub_state' = [i \in 1..Len(batch) |-> "running"]
    /\ sub_output' = [i \in 1..Len(batch) |-> NoFindings]
    /\ completion' = <<>>
    /\ gather' = IF Len(batch) = 0 THEN GatherResult ELSE GatherPending
    /\ round_outcome' = NoOutcome
    /\ lead_pc' = "in_round"
    /\ UNCHANGED <<stream_vars, tool_vars, pure_vars>>

\* sub_agent.run of task i finishes with its findings
sub_agent_run_done(i, summary) ==
    /\ i \in 1..Len(tasks) /\ sub_state[i] = "running"
    /\ sub_state' = [sub_state EXCEPT ![i] = "done"]
    /\ sub_output' = [sub_output EXCEPT
                        ![i] = Findings(SubagentPrompt(tasks[i]), summary)]
    /\ completion' = Append(completion, i)
    /\ gather' = IF gather.state = "pending"
                    /\ \A j \in 1..Len(tasks) : j /= i => sub_state[j] = "done"
                 THEN GatherResult ELSE gather
    /\ UNCHANGED <<lead_pc, rounds, tasks, round_outcome>>
    /\ UNCHANGED <<stream_vars, tool_vars, pure_vars>>

\* sub_agent.run of task i raises: without return_exceptions, gather hands
\* the first exception to its awaiter at once and leaves the other runs be
sub_agent_run_fail(i, e) ==
    /\ i \in 1..Len(tasks) /\ sub_state[i] = "running"
    /\ sub_state' = [sub_state EXCEPT ![i] = "failed"]
    /\ completion' = Append(completion, i)
    /\ gather' = IF gather.state = "pending" THEN GatherException(e) ELSE gather
    /\ UNCHANGED <<lead_pc, rounds, tasks, sub_output, round_outcome>>
    /\ UNCHANGED <<stream_vars, tool_vars, pure_vars>>

\* the outputs in the order in which the runs finished
GatherList_CompletionOrder(outputs, order) ==
    [k \in 1..Len(outputs) |-> outputs[order[k]]]

\* the list asyncio.gather resolves to: the outputs in the order of its arguments
GatherList(outputs, order) == [i \in 1..Len(outputs) |-> outputs[i]]

\* results = await asyncio.gather(...) ; return [result.output for result in results]
run_subagent_return ==
    /\ lead_pc = "in_round" /\ gather.state = "result"
    /\ round_outcome' = Returned(GatherList(sub_output, completion))
    /\ lead_pc' = "deciding"
    /\ UNCHANGED <<rounds, tasks, sub_state, sub_output, completion, gather>>
    /\ UNCHANGED <<stream_vars, tool_vars, pure_vars>>

\* await asyncio.gather(...) raises: nothing in run_subagent catches it, the
\* tool call fails and with it the lead agent's run
run_subagent_raise ==
    /\ lead_pc = "in_round" /\ gather.state = "exception"
    /\ round_outcome' = RaisedOut(gather.error)
    /\ lead_pc' = "failed"
    /\ UNCHANGED <<rounds, tasks, sub_state, sub_output, completion, gather>>
    /\ UNCHANGED <<stream_vars, tool_vars, pure_vars>>

\* the lead agent's model produces the ResearchReport
lead_agent_final ==
    /\ lead_pc = "deciding"
    /\ lead_pc' = "final"
    /\ UNCHANGED <<rounds, tasks, sub_state, sub_output, completion, gather,
                   round_outcome>>
    /\ UNCHANGED <<stream_vars, tool_vars, pure_vars>>

----------------------------------------------------------------------------
(* The tool layer (src/tools.py).  What the network does during a call is  *)
(* an input of the call: whether the connection is made, the HTTP status,  *)
(* and what reading the body gives.                                        *)

Queries == {<<"q">>, <<"r">>}
Urls == {<<"u">>, <<"v">>}
\* str(e) of the exceptions raised under the calls; one holds a double quote
ErrorMessages == {<<"e">>, <<"n","o"," ","\"","x","\"">>}
Statuses == {200, 404, 429, 500, 503}

\* exception classes, as far as the except clauses tell them apart
IsClientError(class) == class = "ClientError"

WebResult(title, url, description, age) ==
    [title |-> title, url |-> url, description |-> description, age |-> age]
Result1 == WebResult(<<"t","\"">>, <<"u","1">>, <<"d">>, <<"1","d">>)
Result2 == [title |-> <<"s">>, url |-> <<"u","2">>]
ResultLists == {<<>>, <<Result1>>, <<Result1, Result2>>, <<Result2, Result1>>}

\* what session.get and response.json() do for a search call
SearchNet(conn, class, msg, status, body, results) ==
    [conn |-> conn, class |-> class, msg |-> msg, status |-> status,
     body |-> body, results |-> results]

SearchNets ==
    \* session.get raises: a network failure, or anything else
    { SearchNet("raises", c, m, 0, "none", <<>>) :
        c \in {"ClientError", "Other"}, m \in ErrorMessages }
    \* a response whose body is not JSON: ContentTypeError is a ClientError,
    \* JSONDecodeError is not
    \cup { SearchNet("ok", c, m, st, "raises", <<>>) :
             c \in {"ClientError", "Other"}, m \in ErrorMessages, st \in Statuses }
    \* a JSON object without web results
    \cup { SearchNet("ok", "", <<>>, st, "no_web", <<>>) : st \in Statuses }
    \* a JSON object with web.results
    \cup { SearchNet("ok", "", <<>>, st, "web", rs) :
             st \in Statuses, rs \in ResultLists }

RateLimitedMsg == <<"R","a","t","e"," ","l","i","m","i","t","e","d"," ","(","4","2","9",")",","," ","r","e","t","r","y","i","n","g"," ","s","e","a","r","c","h"," ","f","o","r",":"," ">>
ServerErrorA == <<"S","e","r","v","e","r"," ","e","r","r","o","r"," ","(">>
ServerErrorB == <<")",","," ","r","e","t","r","y","i","n","g"," ","s","e","a","r","c","h"," ","f","o","r",":"," ">>
NetworkErrorMsg == <<"N","e","t","w","o","r","k"," ","e","r","r","o","r"," ","d","u","r","i","n","g"," ","s","e","a","r","c","h",","," ","r","e","t","r","y","i","n","g",":"," ">>
\* str() of the UnboundLocalError for total_count
UnboundMsg == <<"c","a","n","n","o","t"," ","a","c","c","e","s","s"," ","l","o","c","a","l"," ","v","a","r","i","a","b","l","e"," ","'","t","o","t","a","l","_","c","o","u","n","t","'"," ","w","h","e","r","e"," ","i","t"," ","i","s"," ","n","o","t"," ","a","s","s","o","c","i","a","t","e","d"," ","w","i","t","h"," ","a"," ","v","a","l","u","e">>

\* payloads: the fields the f-strings put into the returned text
Payload(kind, target, total_count, results, status_code, error, content) ==
    [kind |-> kind, target |-> target, total_count |-> total_count,
     results |-> results, status_code |-> status_code, error |-> error,
     content |-> content]

\* query: "..." / total_count: n / results: ...
ResultsPayload(query, total_count, results) ==
    Payload("results", query, total_count, results, "", <<>>, <<>>)
\* query: "..." / error: "..."
SearchErrorPayload(query, error_msg) ==
    Payload("search_error", query, 0, <<>>, "", error_msg, <<>>)
\* url: "..." / content: "..."
ContentPayload(url, clean_content) ==
    Payload("content", url, 0, <<>>, "", <<>>, clean_content)
\* url: "..." / status_code: "error" / error: "..."
FetchErrorPayload(url, error_msg) ==
    Payload("fetch_error", url, 0, <<>>, "error", error_msg, <<>>)
NoPayload == Payload("none", <<>>, 0, <<>>, "", <<>>, <<>>)

\* outcomes of a call, and of a try body
Return(payload, sleeps) ==
    [kind |-> "returned", payload |-> payload, class |-> "", error |-> <<>>,
     sleeps |-> sleeps]
Raise(class, msg, sleeps) ==
    [kind |-> "raised", payload |-> NoPayload, class |-> class, error |-> msg,
     sleeps |-> sleeps]
NoResult ==
    [kind |-> "none", payload |-> NoPayload, class |-> "", error |-> <<>>,
     sleeps |-> <<>>]

\* one entry of results_yaml
ResultEntry(result) ==
    [title |-> EscapeQuotes(Get(result, "title")),
     url |-> Get(result, "url"),
     description |-> EscapeQuotes(Get(result, "description")),
     date |-> Get(result, "age")]

\* the body of search's try block
SearchTry(query, net) ==
    IF net.conn = "raises" THEN Raise(net.class, net.msg, <<>>)
    ELSE IF net.status >= 400 /\ net.status = 429
    THEN Raise("ValueError", RateLimitedMsg \o query, <<2>>)
    ELSE IF net.status >= 400 /\ net.status >= 500
    THEN Raise("ValueError",
               ServerErrorA \o IntToStr(net.status) \o ServerErrorB \o query, <<3>>)
    ELSE IF net.body = "raises" THEN Raise(net.class, net.msg, <<>>)
    ELSE IF net.body = "web"
    THEN Return(ResultsPayload(query, Len(net.results),
                               [k \in 1..Len(net.results) |->
                                   ResultEntry(net.results[k])]), <<>>)
    ELSE \* total_count was never bound
         Raise("UnboundLocalError", UnboundMsg, <<>>)

\* except aiohttp.ClientError as e: sleep 2 and raise ValueError
SearchClientErrorHandler(query, raised) ==
    Raise("ValueError", NetworkErrorMsg \o raised.error, raised.sleeps \o <<2>>)

\* the generic handler backing off and raising like the network handler
SearchExceptionHandler_Raises(query, raised) ==
    Raise("ValueError", raised.error, raised.sleeps \o <<2>>)

\* except Exception as e: return the error payload
SearchExceptionHandler(query, raised) ==
    Return(SearchErrorPayload(query, EscapeQuotes(raised.error)), raised.sleeps)

\* async def search(query, ...)
search(query, net) ==
    LET body == SearchTry(query, net) IN
    IF body.kind = "returned" THEN body
    ELSE IF IsClientError(body.class) THEN SearchClientErrorHandler(query, body)
    ELSE SearchExceptionHandler(query, body)

\* what session.get, response.text() and BeautifulSoup do for a fetch call
FetchNet(conn, msg, status, final_url, text) ==
    [conn |-> conn, msg |-> msg, status |-> status, final_url |-> final_url,
     text |-> text]

PageTexts == {<<>>, <<"h","i">>, <<"a","\"","\n","b">>}

FetchNets ==
    \* connection failure or timeout, body decoding error, extraction error
    { FetchNet(c, m, st, <<>>, <<>>) :
        c \in {"get_raises", "text_raises", "extract_raises"},
        m \in ErrorMessages, st \in Statuses }
    \cup { FetchNet("ok", <<>>, st, u, t) :
             st \in Statuses, u \in Urls, t \in PageTexts }

\* s.replace("\n", "\\n")
RECURSIVE EscapeNewlines(_)
EscapeNewlines(s) ==
    IF s = <<>> THEN <<>>
    ELSE (IF Head(s) = "\n" THEN <<"\\", "n">> ELSE <<Head(s)>>)
         \o EscapeNewlines(Tail(s))

\* def extract_text_content(html_content): BeautifulSoup's work, taken as given
extract_text_content(net) == net.text

\* a try block that raises for a status of 400 or more
FetchTry_StatusChecked(url, net) ==
    IF net.conn /= "ok" THEN Raise("Other", net.msg, <<>>)
    ELSE IF net.status >= 400 THEN Raise("Other", IntToStr(net.status), <<>>)
    ELSE Return(ContentPayload(net.final_url,
                    EscapeNewlines(EscapeQuotes(extract_text_content(net)))), <<>>)

\* the body of fetch's try block
FetchTry(url, net) ==
    IF net.conn /= "ok" THEN Raise("Other", net.msg, <<>>)
    ELSE Return(ContentPayload(net.final_url,
                    EscapeNewlines(EscapeQuotes(extract_text_content(net)))), <<>>)

\* a handler that lets the exception out
FetchExceptionHandler_Raises(url, raised) ==
    Raise(raised.class, raised.error, raised.sleeps)

\* except Exception as e: return the error payload
FetchExceptionHandler(url, raised) ==
    Return(FetchErrorPayload(url, EscapeQuotes(raised.error)), raised.sleeps)

\* async def fetch(url, timeout, headers)
fetch(url, net) ==
    LET body == FetchTry(url, net) IN
    IF body.kind = "returned" THEN body ELSE FetchExceptionHandler(url, body)

ToolCall(op, target, net) == [op |-> op, target |-> target, net |-> net]
NoCall == [op |-> "none"]

\* one call of search
search_call(query, net) ==
    /\ calls < MaxCalls
    /\ calls' = calls + 1
    /\ tool_call' = ToolCall("search", query, net)
    /\ tool_result' = search(query, net)
    /\ slept' = search(query, net).sleeps
    /\ UNCHANGED <<stream_vars, agent_vars, pure_vars>>

\* one call of fetch
fetch_call(url, net) ==
    /\ calls < MaxCalls
    /\ calls' = calls + 1
    /\ tool_call' = ToolCall("fetch", url, net)
    /\ tool_result' = fetch(url, net)
    /\ slept' = fetch(url, net).sleeps
    /\ UNCHANGED <<stream_vars, agent_vars, pure_vars>>

\* the tools of the subagent (src/agent.py): f"Ran into an error: {e}. Please try again!"
RanIntoAnError == <<"R","a","n"," ","i","n","t","o"," ","a","n"," ","e","r","r","o","r",":"," ">>
PleaseTryAgain == <<"."," ","P","l","e","a","s","e"," ","t","r","y"," ","a","g","a","i","n","!">>
ToolErrorPayload(error_msg) ==
    Payload("tool_error", <<>>, 0, <<>>, "", RanIntoAnError \o error_msg \o PleaseTryAgain, <<>>)

\* a wrapper that lets the exception of search out
WebSearchExcept_Raises(raised) ==
    Raise(raised.class, raised.error, raised.sleeps)

\* web_search's except Exception as e: return the message
WebSearchExcept(raised) ==
    Return(ToolErrorPayload(raised.error), raised.sleeps)

\* async def web_search(query, count, country, search_lang)
web_search(query, net) ==
    LET result == search(query, net) IN
    IF result.kind = "returned" THEN result ELSE WebSearchExcept(result)

\* web_fetch's except Exception as e: return the message
WebFetchExcept(raised) ==
    Return(ToolErrorPayload(raised.error), raised.sleeps)

\* async def web_fetch(url, timeout, headers)
web_fetch(url, net) ==
    LET result == fetch(url, net) IN
    IF result.kind = "returned" THEN result ELSE WebFetchExcept(result)

\* one call of the web_search tool
web_search_call(query, net) ==
    /\ calls < MaxCalls
    /\ calls' = calls + 1
    /\ tool_call' = ToolCall("web_search", query, net)
    /\ tool_result' = web_search(query, net)
    /\ slept' = web_search(query, net).sleeps
    /\ UNCHANGED <<stream_vars, agent_vars, pure_vars>>

\* one call of the web_fetch tool
web_fetch_call(url, net) ==
    /\ calls < MaxCalls
    /\ calls' = calls + 1
    /\ tool_call' = ToolCall("web_fetch", url, net)
    /\ tool_result' = web_fetch(url, net)
    /\ slept' = web_fetch(url, net).sleeps
    /\ UNCHANGED <<stream_vars, agent_vars, pure_vars>>

----------------------------------------------------------------------------
(* stream_to_markdown applied to partial reports of the ResearchReport     *)
(* shape: every field may be absent or empty, lists are lists.             *)

\* longest key_takeaways list of the reports rendered
MaxTakeaways == 2

SubC == [title |-> <<"C">>]
SecTitleOnly == [title |-> <<"A">>]
SecContentOnly == [content |-> <<"e">>]
SecASub2 == [title |-> <<"A">>, content |-> <<"c">>,
             subsections |-> JList(<<SubB, SubC>>)]

TitleFields == {EmptyDict, [title |-> <<>>], [title |-> <<"T">>]}
SummaryFields == {EmptyDict, [executive_summary |-> <<"S">>]}
SectionsFields ==
    {EmptyDict}
    \cup { [sections |-> JList(secs)] :
             secs \in { <<>>, <<SecTitleOnly>>, <<SecA>>, <<SecASub>>, <<SecASub2>>,
                        <<SecA, SecContentOnly>>, <<NotADict, SecA>> } }

\* every list of at most n takeaways
RECURSIVE TakeawayLists(_)
TakeawayLists(n) ==
    IF n = 0 THEN {<<>>}
    ELSE TakeawayLists(n - 1)
         \cup {Append(l, t) : l \in {m \in TakeawayLists(n - 1) : Len(m) = n - 1},
                              t \in {<<"k">>, <<"m">>}}

TakeawaysFields ==
    {EmptyDict} \cup { [key_takeaways |-> JList(l)] : l \in TakeawayLists(MaxTakeaways) }

PartialReports ==
    { t @@ e @@ s @@ k : t \in TitleFields, e \in SummaryFields,
                         s \in SectionsFields, k \in TakeawaysFields }

\* both reports are rendered
render_markdown ==
    /\ render_pc = "input"
    /\ markdown_a' = stream_to_markdown(report_a)
    /\ markdown_b' = stream_to_markdown(report_b)
    /\ render_pc' = "rendered"
    /\ UNCHANGED <<report_a, report_b>>
    /\ UNCHANGED <<stream_vars, agent_vars, tool_vars, chat_vars, convert_vars,
                   report_vars>>

----------------------------------------------------------------------------
(* The /api/chat endpoint and convert_messages_to_pydantic (src/main.py).  *)
(* A message is a dict with any of the keys role, parts, content, text,    *)
(* id, or something that is not a dict; a part is a dict with any of the   *)
(* keys type, text, or something that is not a dict.                       *)

\* longest list of messages of a request
MaxMessages == 2

TextPartOf(text) == [type |-> "text", text |-> text]
StepPart == [type |-> "step-start"]

SampleMessages ==
    { [role |-> "user", parts |-> <<TextPartOf(<<"h">>)>>, id |-> "m1"],
      [role |-> "user", content |-> <<"c">>, id |-> "m2"],
      [role |-> "user", text |-> <<"t">>],
      [role |-> "assistant", parts |-> <<StepPart, TextPartOf(<<"r">>)>>, id |-> "m1"],
      [role |-> "system", content |-> <<"s">>, id |-> "m1"],
      [content |-> <<"x">>, id |-> "m1"],
      [role |-> "user", parts |-> <<TextPartOf(<<>>)>>, text |-> <<"z">>, id |-> "m1"],
      [role |-> "user", content |-> <<>>, text |-> <<"z">>, id |-> "m1"],
      [role |-> "user", parts |-> <<>>, id |-> "m1"],
      [role |-> "user", parts |-> <<NotADict>>, content |-> <<"c">>, id |-> "m1"],
      [role |-> "assistant", parts |-> <<TextPartOf(<<"h">>), NotADict>>, id |-> "m2"],
      NotADict }

\* every list of at most n messages
RECURSIVE MessageListsUpTo(_)
MessageListsUpTo(n) ==
    IF n = 0 THEN {<<>>}
    ELSE MessageListsUpTo(n - 1)
         \cup {Append(l, m) : l \in {k \in MessageListsUpTo(n - 1) : Len(k) = n - 1},
                              m \in SampleMessages}

MessageLists == MessageListsUpTo(MaxMessages)

\* the outcome of an expression that may raise
Value(v) == [raised |-> FALSE, value |-> v]
RaisedValue == [raised |-> TRUE, value |-> <<>>]

\* for part in parts: if part.get("type") == "text": text = part.get("text", ""); break
RECURSIVE FirstTextPart(_)
FirstTextPart(parts) ==
    IF parts = <<>> THEN Value(<<>>)
    ELSE IF ~IsDict(Head(parts)) THEN RaisedValue
    ELSE IF "type" \in DOMAIN Head(parts) /\ Head(parts).type = "text"
    THEN Value(Get(Head(parts), "text"))
    ELSE FirstTextPart(Tail(parts))

\* msg.get("content", msg.get("text", ""))
ContentOrText(msg) == IF "content" \in DOMAIN msg THEN msg.content ELSE Get(msg, "text")

\* the text of a message as convert_messages_to_pydantic extracts it
MessageContent(msg) ==
    LET from_parts == IF "parts" \in DOMAIN msg /\ msg.parts /= <<>>
                      THEN FirstTextPart(msg.parts) ELSE Value(<<>>) IN
    IF from_parts.raised THEN RaisedValue
    ELSE IF from_parts.value /= <<>> THEN from_parts
    ELSE Value(ContentOrText(msg))

ModelRequest(content) == [kind |-> "ModelRequest", content |-> content]
ModelResponse(content) == [kind |-> "ModelResponse", content |-> content]

\* def convert_messages_to_pydantic(messages)
RECURSIVE convert_messages_to_pydantic(_)
convert_messages_to_pydantic(msgs) ==
    IF msgs = <<>> THEN Value(<<>>)
    ELSE LET msg == Head(msgs)
             rest == convert_messages_to_pydantic(Tail(msgs)) IN
         IF ~IsDict(msg) \/ "role" \notin DOMAIN msg THEN rest
         ELSE LET content == MessageContent(msg) IN
              IF content.raised THEN RaisedValue
              ELSE IF rest.raised THEN RaisedValue
              ELSE IF content.value = <<>> THEN rest
              ELSE IF msg.role = "user"
              THEN Value(<<ModelRequest(content.value)>> \o rest.value)
              ELSE IF msg.role = "assistant"
              THEN Value(<<ModelResponse(content.value)>> \o rest.value)
              ELSE rest

\* one call of convert_messages_to_pydantic
convert_call ==
    /\ converted.kind = "none"
    /\ converted' = LET r == convert_messages_to_pydantic(messages) IN
                    IF r.raised THEN [kind |-> "raised", list |-> <<>>]
                    ELSE [kind |-> "returned", list |-> r.value]
    /\ UNCHANGED messages
    /\ UNCHANGED <<stream_vars, agent_vars, tool_vars, render_vars, chat_vars,
                   report_vars>>

\* request bodies: not JSON, JSON that is not an object, or an object with
\* any of the keys messages, webSearch
JsonObject(body) == [kind |-> "object", body |-> body]
Requests ==
    { [kind |-> "invalid_json"], [kind |-> "not_object"] }
    \cup { JsonObject(w) : w \in {EmptyDict, [webSearch |-> TRUE]} }
    \cup { JsonObject([messages |-> l] @@ w) :
             l \in MessageLists, w \in {EmptyDict, [webSearch |-> TRUE],
                                        [webSearch |-> FALSE]} }

\* raise HTTPException(400, detail)
Http400(detail) == [kind |-> "http_400", detail |-> detail]
\* StreamingResponse(streaming_generator): the generator created and the
\* run_stream call its body makes
StreamingResponse(generator, message_id_, run) ==
    [kind |-> "streaming", generator |-> generator, message_id |-> message_id_,
     run |-> run]

RunStream(agent, user_prompt, message_history) ==
    [agent |-> agent, user_prompt |-> user_prompt,
     message_history |-> message_history]
\* agent.run_stream(user_prompt, message_history=message_history if message_history else None)
StreamResponseRun(message_history, user_prompt) ==
    RunStream("agent", user_prompt, message_history)
\* lead_agent.run_stream(user_prompt, deps=deps)
StreamResearchResponseRun(user_prompt) ==
    RunStream("lead_agent", user_prompt, <<>>)

\* the text of the last message as chat() extracts it
UserPrompt(last_message) ==
    IF ~IsDict(last_message) THEN RaisedValue
    ELSE LET from_parts == IF "parts" \in DOMAIN last_message
                              /\ last_message.parts /= <<>>
                           THEN FirstTextPart(last_message.parts)
                           ELSE Value(<<>>) IN
         IF from_parts.raised THEN RaisedValue
         ELSE IF from_parts.value /= <<>> THEN from_parts
         ELSE Value(ContentOrText(last_message))

\* chat() without the test of the message id
ChatAfterPrompt_NoIdCheck(body, msgs, last_message, user_prompt) ==
    LET message_history ==
            convert_messages_to_pydantic(SubSeq(msgs, 1, Len(msgs) - 1))
        webSearch == IF "webSearch" \in DOMAIN body THEN body.webSearch ELSE FALSE
        id == IF "id" \in DOMAIN last_message THEN last_message.id ELSE ""
    IN
    IF message_history.raised THEN Http400("Invalid request format")
    ELSE IF webSearch
    THEN StreamingResponse("stream_research_response", id,
                           StreamResearchResponseRun(user_prompt))
    ELSE StreamingResponse("stream_response", id,
                           StreamResponseRun(message_history.value, user_prompt))

\* the part of chat() after the last message's text is known
ChatAfterPrompt(body, msgs, last_message, user_prompt) ==
    LET message_history ==
            convert_messages_to_pydantic(SubSeq(msgs, 1, Len(msgs) - 1))
        webSearch == IF "webSearch" \in DOMAIN body THEN body.webSearch ELSE FALSE
    IN
    IF message_history.raised THEN Http400("Invalid request format")
    ELSE IF "id" \notin DOMAIN last_message \/ last_message.id = ""
    THEN Http400("No message ID provided")
    ELSE IF webSearch
    THEN StreamingResponse("stream_research_response", last_message.id,
                           StreamResearchResponseRun(user_prompt))
    ELSE StreamingResponse("stream_response", last_message.id,
                           StreamResponseRun(message_history.value, user_prompt))

\* async def chat(request)
chat(req) ==
    IF req.kind /= "object" THEN Http400("Invalid request format")
    ELSE LET body == req.body
             msgs == IF "messages" \in DOMAIN body THEN body.messages ELSE <<>> IN
         IF msgs = <<>> THEN Http400("No messages provided")
         ELSE LET last_message == msgs[Len(msgs)]
                  user_prompt == UserPrompt(last_message) IN
              IF user_prompt.raised THEN Http400("Invalid request format")
              ELSE IF user_prompt.value = <<>> THEN Http400("No user message found")
              ELSE ChatAfterPrompt(body, msgs, last_message, user_prompt.value)

\* one request to POST /api/chat
chat_request ==
    /\ response.kind = "none"
    /\ response' = chat(request)
    /\ UNCHANGED request
    /\ UNCHANGED <<stream_vars, agent_vars, tool_vars, render_vars, convert_vars,
                   report_vars>>

----------------------------------------------------------------------------
(* ResearchReport objects (src/models.py): to_markdown, and model_dump     *)
(* which turns the object and its nested sections into dicts.              *)

\* longest sections list of the reports
MaxSections == 2

\* class ResearchSection: subsections is a list of ResearchSection
ResearchSection(title, content, subsections) ==
    [title |-> title, content |-> content, subsections |-> subsections]

\* class ResearchReport
ResearchReport(title, executive_summary, sections, key_takeaways) ==
    [title |-> title, executive_summary |-> executive_summary,
     sections |-> sections, key_takeaways |-> key_takeaways]

\* a subsection that has a subsection of its own
NestedSection == ResearchSection(<<"N">>, <<"n">>, <<ResearchSection(<<"B">>, <<"d">>, <<>>)>>)

\* complete sections without, with one and with two subsections, and
\* sections with an empty title, content or subsection title
Sections ==
    { ResearchSection(<<"A">>, <<"c">>, <<>>),
      ResearchSection(<<"A">>, <<"c">>, <<ResearchSection(<<"B">>, <<"d">>, <<>>)>>),
      ResearchSection(<<"A">>, <<"c">>,
                      <<ResearchSection(<<"B">>, <<"d">>, <<>>), NestedSection>>),
      ResearchSection(<<>>, <<"c">>, <<>>),
      ResearchSection(<<"A">>, <<>>, <<>>),
      ResearchSection(<<"A">>, <<"c">>, <<ResearchSection(<<>>, <<"d">>, <<>>)>>) }

RECURSIVE SeqsUpTo(_, _)
SeqsUpTo(S, n) ==
    IF n = 0 THEN {<<>>}
    ELSE SeqsUpTo(S, n - 1)
         \cup {Append(l, x) : l \in {k \in SeqsUpTo(S, n - 1) : Len(k) = n - 1},
                              x \in S}

ResearchReports ==
    { ResearchReport(t, e, secs, k) :
        t \in {<<>>, <<"T">>}, e \in {<<>>, <<"S">>},
        secs \in SeqsUpTo(Sections, MaxSections),
        k \in SeqsUpTo({<<>>, <<"k">>}, MaxTakeaways) }

\* md += f"### {subsection.title}\n\n{subsection.content}\n\n"
ReportSubsectionMd(subsection) ==
    H3 \o subsection.title \o NLNL \o subsection.content \o NLNL

RECURSIVE ReportSubsectionsMd(_)
ReportSubsectionsMd(subs) ==
    IF subs = <<>> THEN <<>>
    ELSE ReportSubsectionMd(Head(subs)) \o ReportSubsectionsMd(Tail(subs))

\* a section written without its subsections
ReportSectionMd_NoSubsections(section) ==
    H2 \o section.title \o NLNL \o section.content \o NLNL

\* md += f"## {section.title}\n\n{section.content}\n\n", then its subsections
ReportSectionMd(section) ==
    H2 \o section.title \o NLNL \o section.content \o NLNL
    \o ReportSubsectionsMd(section.subsections)

RECURSIVE ReportSectionsMd(_)
ReportSectionsMd(secs) ==
    IF secs = <<>> THEN <<>>
    ELSE ReportSectionMd(Head(secs)) \o ReportSectionsMd(Tail(secs))

\* def to_markdown(self)
to_markdown(self) ==
    H1 \o self.title \o NLNL
    \o ExecHdr \o self.executive_summary \o NLNL
    \o ReportSectionsMd(self.sections)
    \o KeyHdr \o TakeawaysLoopMd(self.key_takeaways, 1)

\* BaseModel.model_dump(): every field becomes a key, nested models dicts
RECURSIVE SectionDump(_)
SectionDump(section) ==
    [title |-> section.title, content |-> section.content,
     subsections |-> JList([k \in 1..Len(section.subsections) |->
                               SectionDump(section.subsections[k])])]

model_dump(self) ==
    [title |-> self.title, executive_summary |-> self.executive_summary,
     sections |-> JList([k \in 1..Len(self.sections) |->
                            SectionDump(self.sections[k])]),
     key_takeaways |-> JList(self.key_takeaways)]

\* both renderers applied to one report
render_report ==
    /\ renderings.kind = "none"
    /\ renderings' = [kind |-> "rendered",
                      to_markdown |-> to_markdown(research_report),
                      stream_to_markdown |-> stream_to_markdown(model_dump(research_report))]
    /\ UNCHANGED research_report
    /\ UNCHANGED <<stream_vars, agent_vars, tool_vars, render_vars, chat_vars,
                   convert_vars>>

----------------------------------------------------------------------------
(* Specifications *)

StreamInit ==
    /\ streamer \in {"chat", "research"}
    /\ message_id \in MessageIds
    /\ pc = "created"
    /\ events = <<>>
    /\ previous_text = <<>>
    /\ previous_markdown = <<>>
    /\ rendered = <<>>
    /\ exception = NoException
    /\ closed_at = NotClosed

AgentInit ==
    /\ lead_pc = "deciding"
    /\ rounds = 0
    /\ tasks = <<>>
    /\ sub_state = <<>>
    /\ sub_output = <<>>
    /\ completion = <<>>
    /\ gather = GatherPending
    /\ round_outcome = NoOutcome

ToolInit ==
    /\ tool_call = NoCall
    /\ tool_result = NoResult
    /\ slept = <<>>
    /\ calls = 0

\* the parts of the state a specification does not exercise
StreamIdle ==
    /\ streamer = "chat"
    /\ message_id = "m1"
    /\ pc = "created"
    /\ events = <<>>
    /\ previous_text = <<>>
    /\ previous_markdown = <<>>
    /\ rendered = <<>>
    /\ exception = NoException
    /\ closed_at = NotClosed

RenderIdle ==
    /\ report_a = EmptyDict
    /\ report_b = EmptyDict
    /\ markdown_a = <<>>
    /\ markdown_b = <<>>
    /\ render_pc = "idle"

ChatIdle ==
    /\ request = [kind |-> "none"]
    /\ response = [kind |-> "none"]

ConvertIdle ==
    /\ messages = <<>>
    /\ converted = [kind |-> "none"]

ReportIdle ==
    /\ research_report = EmptyDict
    /\ renderings = [kind |-> "none"]

PureIdle == RenderIdle /\ ChatIdle /\ ConvertIdle /\ ReportIdle

Init == StreamInit /\ AgentInit /\ ToolInit /\ PureIdle

\* a pair of partial reports to render
RenderInit ==
    /\ StreamIdle /\ AgentInit /\ ToolInit /\ ChatIdle /\ ConvertIdle /\ ReportIdle
    /\ report_a \in PartialReports
    /\ report_b \in PartialReports
    /\ markdown_a = <<>>
    /\ markdown_b = <<>>
    /\ render_pc = "input"

RenderNext == render_markdown

\* a request to the endpoint
ChatInit ==
    /\ StreamIdle /\ AgentInit /\ ToolInit /\ RenderIdle /\ ConvertIdle /\ ReportIdle
    /\ request \in Requests
    /\ response = [kind |-> "none"]

ChatNext == chat_request

\* a list of messages to convert
ConvertInit ==
    /\ StreamIdle /\ AgentInit /\ ToolInit /\ RenderIdle /\ ChatIdle /\ ReportIdle
    /\ messages \in MessageLists
    /\ converted = [kind |-> "none"]

ConvertNext == convert_call

\* a report to render both ways
ReportInit ==
    /\ StreamIdle /\ AgentInit /\ ToolInit /\ RenderIdle /\ ChatIdle /\ ConvertIdle
    /\ research_report \in ResearchReports
    /\ renderings = [kind |-> "none"]

ReportNext == render_report

StreamNext ==
    \/ stream_response_start
    \/ \E message \in ChatMessages : stream_response_message(message)
    \/ stream_response_end
    \/ stream_response_done
    \/ \E e \in ExceptionMessages : stream_response_except(e)
    \/ stream_response_except_end
    \/ stream_response_except_done
    \/ stream_research_response_start
    \/ \E partial_output \in ResearchSnapshots :
          stream_research_response_partial(partial_output)
    \/ stream_research_response_end
    \/ stream_research_response_done
    \/ \E e \in ExceptionMessages : stream_research_response_except(e)
    \/ stream_research_response_except_end
    \/ stream_research_response_except_done

AgentNext ==
    \/ \E batch \in Batches : run_subagent_call(batch)
    \/ \E i \in 1..MaxTasks, summary \in Summaries : sub_agent_run_done(i, summary)
    \/ \E i \in 1..MaxTasks, e \in SubagentErrors : sub_agent_run_fail(i, e)
    \/ run_subagent_return
    \/ run_subagent_raise
    \/ lead_agent_final

ToolNext ==
    \/ \E query \in Queries, net \in SearchNets : search_call(query, net)
    \/ \E url \in Urls, net \in FetchNets : fetch_call(url, net)
    \/ \E query \in Queries, net \in SearchNets : web_search_call(query, net)
    \/ \E url \in Urls, net \in FetchNets : web_fetch_call(url, net)

\* the streamers
SpecStream == Init /\ [][StreamNext]_vars

\* the streamers with a consumer that may close the generator
StreamCloseNext ==
    \/ StreamNext
    \/ stream_response_close
    \/ stream_research_response_close

SpecStreamClose == Init /\ [][StreamCloseNext]_vars
\* result.stream() is exhausted or raises
SourceFinishes ==
    \/ stream_response_end
    \/ \E e \in ExceptionMessages : stream_response_except(e)
    \/ stream_research_response_end
    \/ \E e \in ExceptionMessages : stream_research_response_except(e)

\* the consumer asks for the next frame of a generator past its loop
ConsumerReads ==
    \/ stream_response_done
    \/ stream_response_except_end
    \/ stream_response_except_done
    \/ stream_research_response_done
    \/ stream_research_response_except_end
    \/ stream_research_response_except_done

\* the streamers with a source that finishes and a consumer that keeps reading
SpecStreamLive ==
    Init /\ [][StreamNext]_vars /\ WF_vars(SourceFinishes) /\ WF_vars(ConsumerReads)
\* the lead agent's rounds of subagents
SpecAgent == Init /\ [][AgentNext]_vars
\* the tool layer
SpecTools == Init /\ [][ToolNext]_vars
\* the markdown renderer
SpecRender == RenderInit /\ [][RenderNext]_vars
\* the two renderers of a report
SpecReport == ReportInit /\ [][ReportNext]_vars
\* the chat endpoint
SpecChat == ChatInit /\ [][ChatNext]_vars
\* the conversion of the message history
SpecConvert == ConvertInit /\ [][ConvertNext]_vars

----------------------------------------------------------------------------
(* Properties of the streamers *)

\* the deltas of the text-delta frames, concatenated in emission order
RECURSIVE DeltaConcat(_)
DeltaConcat(evs) ==
    IF evs = <<>> THEN <<>>
    ELSE (IF Head(evs).type = "text-delta" THEN Head(evs).delta ELSE <<>>)
         \o DeltaConcat(Tail(evs))

\* the number of frames of a type
RECURSIVE CountType(_, _)
CountType(evs, type) ==
    IF evs = <<>> THEN 0
    ELSE (IF Head(evs).type = type THEN 1 ELSE 0) + CountType(Tail(evs), type)

\* the full rendering of the last snapshot delivered
FinalRendering == IF rendered = <<>> THEN <<>> ELSE rendered[Len(rendered)]

\* every rendering has the previous rendering as a prefix
Monotone(rs) == \A k \in 1..(Len(rs) - 1) : StartsWith(rs[k + 1], rs[k])

\* the frames so far are a prefix of: text-start, text-delta*, text-end, [DONE]
FramesInOrder(evs) ==
    \A k \in 1..Len(evs) :
        /\ (evs[k].type = "text-start") <=> (k = 1)
        /\ evs[k].type \in {"text-start", "text-delta", "text-end", "[DONE]"}
        /\ evs[k].type /= "[DONE]" => evs[k].id = message_id
        /\ evs[k].type = "text-delta" => evs[k].delta /= <<>>
        /\ evs[k].type = "text-end" =>
              /\ k > 1 /\ evs[k - 1].type \in {"text-start", "text-delta"}
              /\ k >= Len(evs) - 1
        /\ evs[k].type = "[DONE]" =>
              /\ k > 1 /\ evs[k - 1].type = "text-end"
              /\ k = Len(evs)

\* C1: in both streamers the frames emitted are, in this order, one
\* text-start, any number of text-delta frames with a non-empty delta, one
\* text-end and one [DONE], and nothing after [DONE]; a finished stream has
\* all of them, whether the source ended or raised.
C1_EventSequence ==
    /\ FramesInOrder(events)
    /\ pc = "done" =>
          /\ CountType(events, "text-start") = 1
          /\ CountType(events, "text-end") = 1
          /\ CountType(events, "[DONE]") = 1
          /\ events[Len(events)] = DoneSentinel
    /\ pc /= "created" => events[1] = TextStart(message_id)

\* a research stream that sent a delta, then failed, and was closed
C1_Witness ==
    /\ streamer = "research" /\ pc = "done"
    /\ exception.raised /\ exception.at >= 2
    /\ Len(events) = exception.at + 3

\* C2 as stated: for every sequence of snapshots, the concatenated deltas of
\* a finished stream equal the full rendering of the last snapshot.
C2_DeltaConcatenationAlways ==
    pc = "done" => DeltaConcat(events) = FinalRendering

\* C2 amended: when every rendering has the previous rendering as a prefix
\* and no exception is raised, the concatenated deltas of a finished stream
\* equal the full rendering of the last snapshot.
C2_DeltaConcatenationMonotone ==
    (pc = "done" /\ ~exception.raised /\ Monotone(rendered))
        => DeltaConcat(events) = FinalRendering

\* a finished research stream over three growing renderings
C2_Witness ==
    /\ streamer = "research" /\ pc = "done" /\ ~exception.raised
    /\ Len(rendered) = 3 /\ Monotone(rendered)
    /\ CountType(events, "text-delta") = 3

\* C3: once the source has raised, the frame after those emitted before the
\* exception is a text-delta carrying "Error: " and the message, no
\* text-delta follows it, only text-end and then [DONE] follow it, and the
\* generator is in its handler or finished: the exception is not propagated.
C3_ErrorDelta ==
    exception.raised =>
        /\ pc \in {"error_delta", "error_text_end", "done"}
        /\ Len(events) >= exception.at + 1
        /\ events[exception.at + 1] =
               TextDelta(message_id, ErrorPrefix \o exception.msg)
        /\ Len(events) <= exception.at + 3
        /\ Len(events) >= exception.at + 2 =>
               events[exception.at + 2] = TextEnd(message_id)
        /\ Len(events) = exception.at + 3 =>
               events[exception.at + 3] = DoneSentinel
        /\ pc = "done" => Len(events) = exception.at + 3
        /\ \A k \in 1..exception.at :
               events[k].type \in {"text-start", "text-delta"}

\* a chat stream that failed after a delta and was closed
C3_Witness ==
    /\ streamer = "chat" /\ pc = "done"
    /\ exception.raised /\ exception.msg /= <<>> /\ exception.at >= 2

----------------------------------------------------------------------------
(* Properties of a round of subagents *)

\* C4 as stated: a failing subagent does not make run_subagent raise; the
\* round returns one entry per task, the failed task's entry included.
C4_FailureContained ==
    /\ round_outcome.kind /= "raised"
    /\ round_outcome.kind = "returned" =>
          /\ Len(round_outcome.list) = Len(tasks)
          /\ \A i \in 1..Len(tasks) : round_outcome.list[i] /= NoFindings

\* C5: the list run_subagent returns has at position i the output of the run
\* started for task i, whatever the order in which the runs finished.
C5_FanInOrder ==
    round_outcome.kind = "returned" =>
        /\ Len(round_outcome.list) = Len(tasks)
        /\ \A i \in 1..Len(tasks) :
              /\ round_outcome.list[i] = sub_output[i]
              /\ round_outcome.list[i].prompt = SubagentPrompt(tasks[i])

\* a returned round whose runs finished in the reverse of the task order
C5_Witness ==
    /\ round_outcome.kind = "returned"
    /\ Len(tasks) = 3 /\ completion = <<3, 2, 1>>
    /\ tasks[1] /= tasks[3]

\* C6 as stated: run_subagent has neither returned nor raised while a run of
\* the round is still going.
C6_FullBarrier ==
    round_outcome.kind /= "none" =>
        \A i \in 1..Len(tasks) : sub_state[i] /= "running"

\* C7 as stated: run_subagent is invoked at most 3 times in one request.
C7_RoundCap == rounds <= 3

----------------------------------------------------------------------------
(* Properties of the tool layer *)

\* the response of the call is an HTTP 429 or 5xx
RateLimitedOrServerError ==
    /\ tool_call.op = "search" /\ tool_call.net.conn = "ok"
    /\ (tool_call.net.status = 429 \/ tool_call.net.status >= 500)

\* C8 as stated: on HTTP 429 or 5xx search sleeps the backoff (2s, 3s) and
\* raises; it returns no payload.
C8_RetrySignal ==
    RateLimitedOrServerError =>
        /\ tool_result.kind = "raised"
        /\ slept = <<IF tool_call.net.status = 429 THEN 2 ELSE 3>>

\* the call failed with an exception that is neither a 429/5xx response nor
\* a ClientError, and this is its message
OtherSearchFailure ==
    /\ tool_call.op = "search"
    /\ ~RateLimitedOrServerError
    /\ \/ tool_call.net.conn = "raises" /\ tool_call.net.class /= "ClientError"
       \/ /\ tool_call.net.conn = "ok"
          /\ \/ tool_call.net.body = "raises" /\ tool_call.net.class /= "ClientError"
             \/ tool_call.net.body = "no_web"

OtherSearchFailureMessage ==
    IF tool_call.net.conn = "ok" /\ tool_call.net.body = "no_web"
    THEN UnboundMsg ELSE tool_call.net.msg

\* C9: after such a failure search has returned the error payload with the
\* query and the message (quotes escaped), has not slept and has not raised.
C9_ErrorPayload ==
    OtherSearchFailure =>
        /\ tool_result.kind = "returned"
        /\ tool_result.payload =
               SearchErrorPayload(tool_call.target,
                                  EscapeQuotes(OtherSearchFailureMessage))
        /\ slept = <<>>

\* reading the body of a 200 response raised a non-network error whose
\* message holds a double quote
C9_Witness ==
    /\ OtherSearchFailure
    /\ tool_call.net.conn = "ok" /\ tool_call.net.status = 200
    /\ tool_call.net.body = "raises"
    /\ tool_call.net.msg /= EscapeQuotes(tool_call.net.msg)
    /\ tool_result.kind = "returned"

\* C10: fetch always returns; when the request, the reading of the body or
\* the text extraction failed, it returns the payload with the requested url,
\* status_code "error" and the message (quotes escaped).
C10_FetchContainsFailures ==
    tool_call.op = "fetch" =>
        /\ tool_result.kind = "returned"
        /\ tool_call.net.conn /= "ok" =>
              /\ tool_result.payload.kind = "fetch_error"
              /\ tool_result.payload.target = tool_call.target
              /\ tool_result.payload.status_code = "error"
              /\ tool_result.payload.error = EscapeQuotes(tool_call.net.msg)

\* a fetch whose connection failed
C10_Witness ==
    /\ tool_call.op = "fetch" /\ tool_call.net.conn = "get_raises"
    /\ tool_result.kind = "returned"
    /\ tool_result.payload.status_code = "error"

\* the call got a response below 400 with a JSON body
SuccessfulJsonResponse ==
    /\ tool_call.op = "search" /\ tool_call.net.conn = "ok"
    /\ tool_call.net.status < 400
    /\ tool_call.net.body \in {"web", "no_web"}

\* C11 as stated: for a response below 400, whatever the JSON body holds,
\* search returns the results block with the query, total_count equal to the
\* number of web results and one normalized entry per result in the
\* provider's order; it does not return the error payload.
C11_ResultsBlock ==
    SuccessfulJsonResponse =>
        /\ tool_result.kind = "returned"
        /\ tool_result.payload.kind = "results"
        /\ tool_result.payload.target = tool_call.target
        /\ tool_result.payload.total_count = Len(tool_call.net.results)
        /\ Len(tool_result.payload.results) = Len(tool_call.net.results)
        /\ \A k \in 1..Len(tool_call.net.results) :
              tool_result.payload.results[k] = ResultEntry(tool_call.net.results[k])

----------------------------------------------------------------------------
(* Properties of stream_to_markdown *)

\* The populated fields of a partial report in the fixed field order: title,
\* executive_summary, each section's title and content followed by its
\* subsections' titles and contents, then the takeaways.
Leaf(kind, i, j, value) == [kind |-> kind, i |-> i, j |-> j, value |-> value]

TextLeaf(d, key, kind, i, j) ==
    IF key \in DOMAIN d /\ d[key] /= <<>>
    THEN <<Leaf(kind, i, j, d[key])>> ELSE <<>>

ListItems(d, key) == IF key \in DOMAIN d THEN d[key].items ELSE <<>>

RECURSIVE SubsectionLeaves(_, _, _)
SubsectionLeaves(subs, i, j) ==
    IF j > Len(subs) THEN <<>>
    ELSE (IF IsDict(subs[j])
          THEN TextLeaf(subs[j], "title", "subsection_title", i, j)
               \o TextLeaf(subs[j], "content", "subsection_content", i, j)
          ELSE <<>>)
         \o SubsectionLeaves(subs, i, j + 1)

RECURSIVE SectionLeaves(_, _)
SectionLeaves(secs, i) ==
    IF i > Len(secs) THEN <<>>
    ELSE (IF IsDict(secs[i])
          THEN TextLeaf(secs[i], "title", "section_title", i, 0)
               \o TextLeaf(secs[i], "content", "section_content", i, 0)
               \o SubsectionLeaves(ListItems(secs[i], "subsections"), i, 1)
          ELSE <<>>)
         \o SectionLeaves(secs, i + 1)

TakeawayLeaves(items) ==
    [i \in 1..Len(items) |-> Leaf("takeaway", i, 0, items[i])]

PopulatedFields(report) ==
    TextLeaf(report, "title", "title", 0, 0)
    \o TextLeaf(report, "executive_summary", "executive_summary", 0, 0)
    \o SectionLeaves(ListItems(report, "sections"), 1)
    \o TakeawayLeaves(ListItems(report, "key_takeaways"))

\* b has the populated fields of a, with the same values, and after them
\* possibly more
Grows(a, b) == StartsWith(PopulatedFields(b), PopulatedFields(a))

\* C12: when report_b has report_a's populated fields with the same values
\* plus populated fields later in the field order, stream_to_markdown of
\* report_a is a prefix of stream_to_markdown of report_b.
C12_PrefixGrowth ==
    (render_pc = "rendered" /\ Grows(report_a, report_b))
        => StartsWith(markdown_b, markdown_a)

\* a report with a title and sections, grown by a subsection and takeaways
C12_Witness ==
    /\ render_pc = "rendered"
    /\ Grows(report_a, report_b)
    /\ report_a = [title |-> <<"T">>, sections |-> JList(<<SecA>>)]
    /\ report_b = [title |-> <<"T">>, sections |-> JList(<<SecASub>>),
                   key_takeaways |-> JList(<< <<"k">>, <<"m">> >>)]
    /\ Len(markdown_b) > Len(markdown_a)

\* the characters one populated field contributes
FieldBlock(leaf) ==
    CASE leaf.kind = "title" -> H1 \o leaf.value \o NLNL
      [] leaf.kind = "executive_summary" -> ExecHdr \o leaf.value \o NLNL
      [] leaf.kind = "section_title" -> H2 \o leaf.value \o NLNL
      [] leaf.kind = "section_content" -> leaf.value \o NLNL
      [] leaf.kind = "subsection_title" -> H3 \o leaf.value \o NLNL
      [] leaf.kind = "subsection_content" -> leaf.value \o NLNL
      [] leaf.kind = "takeaway" ->
            (IF leaf.i = 1 THEN KeyHdr ELSE <<>>)
            \o IntToStr(leaf.i) \o DotSp \o leaf.value \o NL

RECURSIVE FieldBlocks(_)
FieldBlocks(leaves) ==
    IF leaves = <<>> THEN <<>>
    ELSE FieldBlock(Head(leaves)) \o FieldBlocks(Tail(leaves))

\* the number of places at which sub occurs in s
Occurrences(s, sub) ==
    Cardinality({k \in 1..Len(s) : StartsWith(SliceFrom(s, k - 1), sub)})

\* C17: stream_to_markdown of a partial report is the concatenation, in the
\* fixed field order, of the blocks of its populated fields, an absent or
\* empty field contributing nothing; the Key Takeaways heading is there
\* exactly when the takeaways list is not empty, followed by the takeaways
\* numbered from 1.
C17_FixedOrderConcatenation ==
    render_pc = "rendered" =>
        /\ markdown_a = FieldBlocks(PopulatedFields(report_a))
        /\ Occurrences(markdown_a, KeyHdr) =
              (IF ListItems(report_a, "key_takeaways") /= <<>> THEN 1 ELSE 0)

\* a report with every block, an empty title, a non-dict section and two
\* takeaways
C17_Witness ==
    /\ render_pc = "rendered"
    /\ report_a = [title |-> <<>>, executive_summary |-> <<"S">>,
                   sections |-> JList(<<NotADict, SecA>>),
                   key_takeaways |-> JList(<< <<"k">>, <<"m">> >>)]
    /\ markdown_a /= <<>>
    /\ ~StartsWith(markdown_a, H1)

----------------------------------------------------------------------------
(* Properties of the streamers, snapshot by snapshot *)

\* this step processes one more snapshot
SnapshotStep(mode) == streamer = mode /\ Len(rendered') = Len(rendered) + 1
\* the full rendering of the snapshot the step processes
CurrentRendering == rendered'[Len(rendered')]

\* C13 as stated: in research mode a snapshot whose rendering does not start
\* with previous_markdown is sent whole: the step emits one text-delta with
\* the entire rendering.
C13_ResearchFullReplacement ==
    [][(SnapshotStep("research")
          /\ ~StartsWith(CurrentRendering, previous_markdown)
          /\ CurrentRendering /= <<>>)
        => events' = Append(events, TextDelta(message_id, CurrentRendering))]_vars

\* C14: in chat mode a snapshot that starts with previous_text emits exactly
\* its suffix after len(previous_text), and nothing when the suffix is empty;
\* a non-empty snapshot that does not start with previous_text is emitted
\* whole; after every emission previous_text is the snapshot.
C14_ChatDeltaPerSnapshot ==
    [][SnapshotStep("chat") =>
        /\ StartsWith(CurrentRendering, previous_text) =>
              events' = (IF SliceFrom(CurrentRendering, Len(previous_text)) = <<>>
                         THEN events
                         ELSE Append(events,
                                TextDelta(message_id,
                                    SliceFrom(CurrentRendering, Len(previous_text)))))
        /\ (~StartsWith(CurrentRendering, previous_text) /\ CurrentRendering /= <<>>) =>
              events' = Append(events, TextDelta(message_id, CurrentRendering))
        /\ events' /= events => previous_text' = CurrentRendering]_vars

\* a chat stream whose second snapshot replaced the first and whose third
\* extended the second
C14_Witness ==
    /\ streamer = "chat"
    /\ rendered = << <<"a">>, <<"b">>, <<"b","a">> >>
    /\ events = <<TextStart(message_id), TextDelta(message_id, <<"a">>),
                  TextDelta(message_id, <<"b">>), TextDelta(message_id, <<"a">>)>>
    /\ previous_text = <<"b","a">>

----------------------------------------------------------------------------
(* Termination of the streams *)

\* the stream is closed: its last two frames are text-end and [DONE]
Terminated ==
    /\ pc = "done"
    /\ Len(events) >= 3
    /\ events[Len(events) - 1] = TextEnd(message_id)
    /\ events[Len(events)] = DoneSentinel

\* C16: once a streamer has emitted text-start, and provided the snapshot
\* source is eventually exhausted or raises and the consumer keeps reading,
\* the stream eventually emits text-end followed by [DONE].
C16_StreamTerminates == (pc /= "created") ~> Terminated

\* a chat stream that sent every snapshot it could and was closed normally
C16_Witness ==
    /\ Terminated
    /\ streamer = "chat" /\ ~exception.raised
    /\ CountType(events, "text-delta") = MaxSnapshots

----------------------------------------------------------------------------
(* Properties of the subagent's tools *)

\* C20: every invocation of the web_search and web_fetch tools returns a
\* string, whatever the underlying search or fetch did (result, error
\* payload, or exception): no exception leaves the tool.
C20_ToolsReturnStrings ==
    tool_call.op \in {"web_search", "web_fetch"} =>
        /\ tool_result.kind = "returned"
        /\ tool_result.payload.kind \in
               {"results", "search_error", "content", "fetch_error", "tool_error"}

\* search raised its network retry signal and web_search returned the
\* message built from it
C20_Witness ==
    /\ tool_call.op = "web_search"
    /\ tool_call.net.conn = "raises" /\ tool_call.net.class = "ClientError"
    /\ search(tool_call.target, tool_call.net).kind = "raised"
    /\ tool_result.kind = "returned"
    /\ tool_result.payload.error =
           RanIntoAnError \o NetworkErrorMsg \o tool_call.net.msg \o PleaseTryAgain

----------------------------------------------------------------------------
(* Close of the stream by its consumer *)

\* C21: when the client disconnects (the generator is closed by its
\* consumer) at any point during streaming, no further event is emitted for
\* that stream: no error text-delta, text-end or [DONE] after the close.
C21_NoEventAfterClose ==
    closed_at /= NotClosed => (Len(events) = closed_at /\ pc = "closed")

\* a research stream closed right after it had sent a delta
C21_Witness ==
    /\ closed_at >= 2 /\ pc = "closed"
    /\ events[closed_at].type = "text-delta"
    /\ streamer = "research"

----------------------------------------------------------------------------
(* Exactness of the streamers under monotone input *)

\* the streamer's record of what it has sent
PreviousRendering == IF streamer = "chat" THEN previous_text ELSE previous_markdown

\* C22: in both modes, if every rendering has the previous rendering as a
\* prefix and no exception occurred, then after each processed snapshot the
\* streamer's previous-rendering variable equals that snapshot's rendering
\* and equals the concatenation of all deltas emitted so far.
C22_ExactAtEveryStep ==
    (pc \in {"streaming", "text_end", "done"} /\ ~exception.raised
     /\ rendered /= <<>> /\ Monotone(rendered))
        => /\ PreviousRendering = FinalRendering
           /\ DeltaConcat(events) = FinalRendering

\* a research stream in its loop after two snapshots, the second longer
\* than the first
C22_Witness ==
    /\ streamer = "research" /\ pc = "streaming"
    /\ Len(rendered) = 2 /\ Monotone(rendered)
    /\ rendered[1] /= <<>> /\ Len(rendered[2]) > Len(rendered[1])
    /\ previous_markdown = rendered[2]
    /\ CountType(events, "text-delta") = 2

----------------------------------------------------------------------------
(* Agreement of the two renderers *)

\* every text of the report is non-empty, and so is key_takeaways
Complete(r) ==
    /\ r.title /= <<>> /\ r.executive_summary /= <<>>
    /\ \A k \in 1..Len(r.sections) :
          /\ r.sections[k].title /= <<>> /\ r.sections[k].content /= <<>>
          /\ \A j \in 1..Len(r.sections[k].subsections) :
                /\ r.sections[k].subsections[j].title /= <<>>
                /\ r.sections[k].subsections[j].content /= <<>>
    /\ r.key_takeaways /= <<>>

\* C23: for every ResearchReport whose title, executive summary, section and
\* subsection titles and contents are non-empty and whose key_takeaways is
\* non-empty, stream_to_markdown(report.model_dump()) equals
\* report.to_markdown() character for character.
C23_RenderersAgree ==
    (renderings.kind = "rendered" /\ Complete(research_report))
        => renderings.stream_to_markdown = renderings.to_markdown

\* a complete report with a section, two subsections and two takeaways was
\* rendered both ways
C23_Witness ==
    /\ renderings.kind = "rendered" /\ Complete(research_report)
    /\ Len(research_report.sections) >= 1
    /\ Len(research_report.sections[1].subsections) = 2
    /\ Len(research_report.key_takeaways) = 2
    /\ renderings.to_markdown /= <<>>

----------------------------------------------------------------------------
(* fetch and the HTTP status *)

\* C24: fetch does not inspect the HTTP status: for every response received
\* whose body can be read, whatever its status code, fetch returns the
\* success payload with the final url and the extracted text (quotes and
\* newlines escaped); the status_code "error" payload is returned only when
\* an exception occurred.
C24_FetchIgnoresStatus ==
    tool_call.op = "fetch" =>
        /\ tool_call.net.conn = "ok" =>
              /\ tool_result.kind = "returned"
              /\ tool_result.payload =
                     ContentPayload(tool_call.net.final_url,
                         EscapeNewlines(EscapeQuotes(tool_call.net.text)))
        /\ tool_result.payload.status_code = "error" => tool_call.net.conn /= "ok"

\* a 500 response with a readable body was returned as content
C24_Witness ==
    /\ tool_call.op = "fetch" /\ tool_call.net.conn = "ok"
    /\ tool_call.net.status = 500 /\ tool_call.net.text /= <<>>
    /\ tool_result.payload.kind = "content"
    /\ tool_result.payload.target = tool_call.net.final_url

----------------------------------------------------------------------------
(* Properties of the chat endpoint *)

\* the text of the first part that is a text part, "" when there is none
RECURSIVE TextOfFirstTextPart(_)
TextOfFirstTextPart(parts) ==
    IF parts = <<>> THEN <<>>
    ELSE IF IsDict(Head(parts)) /\ "type" \in DOMAIN Head(parts)
            /\ Head(parts).type = "text"
    THEN Get(Head(parts), "text")
    ELSE TextOfFirstTextPart(Tail(parts))

\* text of the first text part, else the content field, else the text field
ExtractableText(msg) ==
    IF ~IsDict(msg) THEN <<>>
    ELSE IF TextOfFirstTextPart(Get(msg, "parts")) /= <<>>
    THEN TextOfFirstTextPart(Get(msg, "parts"))
    ELSE IF Get(msg, "content") /= <<>> THEN msg.content
    ELSE Get(msg, "text")

RequestMessages ==
    IF request.kind = "object" /\ "messages" \in DOMAIN request.body
    THEN request.body.messages ELSE <<>>

LastMessage == RequestMessages[Len(RequestMessages)]

NoId(msg) == ~IsDict(msg) \/ "id" \notin DOMAIN msg \/ msg.id = ""

Malformed ==
    \/ request.kind /= "object"
    \/ RequestMessages = <<>>
    \/ ExtractableText(LastMessage) = <<>>
    \/ NoId(LastMessage)

\* C15: every malformed chat request (body not a JSON object, empty or
\* missing messages, last message without extractable user text or without
\* id) is answered with HTTP 400: no generator is created and no stream
\* event is emitted for it.
C15_MalformedRejected ==
    (response.kind /= "none" /\ Malformed)
        => (response.kind = "http_400" /\ events = <<>> /\ pc = "created")

\* a request whose last message has text but no id was answered with 400,
\* and so was a request without messages
C15_Witness ==
    /\ response.kind = "http_400"
    /\ request.kind = "object"
    /\ RequestMessages /= <<>>
    /\ ExtractableText(LastMessage) /= <<>>
    /\ NoId(LastMessage)
    /\ response.detail = "No message ID provided"

\* the messages before the last one, as the chat agent receives them
PriorHistory ==
    convert_messages_to_pydantic(SubSeq(RequestMessages, 1, Len(RequestMessages) - 1)).value

\* C18: in research mode (webSearch true) the messages preceding the last
\* message of the request are passed to the lead agent run as history, as
\* they are passed to the chat agent in chat mode.
C18_ResearchHistory ==
    (response.kind = "streaming" /\ response.generator = "stream_research_response")
        => (response.run.agent = "lead_agent"
            /\ response.run.message_history = PriorHistory)

----------------------------------------------------------------------------
(* Properties of convert_messages_to_pydantic *)

\* the messages the conversion is to keep, each mapped to its counterpart
RECURSIVE ExpectedConversion(_)
ExpectedConversion(msgs) ==
    IF msgs = <<>> THEN <<>>
    ELSE LET msg == Head(msgs) IN
         IF IsDict(msg) /\ "role" \in DOMAIN msg /\ ExtractableText(msg) /= <<>>
            /\ msg.role \in {"user", "assistant"}
         THEN <<IF msg.role = "user" THEN ModelRequest(ExtractableText(msg))
                ELSE ModelResponse(ExtractableText(msg))>>
              \o ExpectedConversion(Tail(msgs))
         ELSE ExpectedConversion(Tail(msgs))

\* C19: convert_messages_to_pydantic returns exactly the order-preserving
\* subsequence of the messages that are objects with role user or assistant
\* and non-empty extractable text, each mapped to a user or assistant message
\* with that text; every other message is dropped without error.
C19_ConvertedSubsequence ==
    converted.kind /= "none"
        => (converted.kind = "returned"
            /\ converted.list = ExpectedConversion(messages))

====
